---- MODULE Spec2Model ----
(***************************************************************************)
(* Client-side delivery and synchronisation layer of the iotUx mobile app: *)
(*   - CommandQueue   (src/src/utils/command-queue.ts)                     *)
(*   - pendingRequests / deviceAPI read calls (src/src/services/api.ts)    *)
(*   - cachedAuthToken / initializeTokenCache (src/src/services/api.ts)    *)
(*                                                                         *)
(* Execution model: one JavaScript event loop.  A handler runs without     *)
(* preemption up to its next await; continuations of already resolved      *)
(* promises (microtasks) run before any timer callback or I/O completion   *)
(* (macrotasks).  AsyncStorage serves its operations one at a time in the  *)
(* order they were issued.                                                 *)
(***************************************************************************)
EXTENDS Integers, Sequences, FiniteSets, TLC

\* ---------------------------------------------------------------- bounds
MaxCmds == 2          \* commands ever enqueued in one behaviour
MaxRestarts == 1      \* process restarts in one behaviour
MaxOps == 2           \* AsyncStorage operations of the queue in flight
MaxOrphans == 1       \* armed save timers no longer referenced by saveTimeout
NumDrainSlots == 2    \* concurrent processQueue() invocations tracked
MaxTicks == 3         \* clock advances in one behaviour
TickMs == 500         \* milliseconds per clock advance
MaxReqs == 3          \* Transport read calls started in one behaviour
MaxCalls == 3         \* deviceAPI read calls made in one behaviour
MaxReads == 3         \* durable reads of the token started in one behaviour
MaxAuthOps == 2       \* AsyncStorage operations on the credential in flight
MaxTokenCalls == 2    \* token look-ups by the request interceptor recorded
MaxDelivered == 2     \* distinct errors delivered to callers recorded
MaxFaults == 1        \* moments at which AsyncStorage rejects queue operations
MaxEdits == 1         \* changes a caller makes to what getQueuedCommands() gave
MaxWrites == 2        \* deviceAPI write calls made in one behaviour
MaxHashLen == 2       \* elements of an array, keys of an object that is hashed

\* ------------------------------------------------------ program constants
MAX_RETRIES == 3
REQUEST_CACHE_TTL == 1000

CmdIds == 1..MaxCmds
DrainSlots == 1..NumDrainSlots
\* AsyncStorage.getItem result for a key never written (null)
NoItem == [has |-> FALSE, data |-> <<>>]
\* JSON.stringify of the queue as stored, JSON.parse gives data back
Item(q) == [has |-> TRUE, data |-> q]

VARIABLES
  queue,          \* CommandQueue.queue: sequence of [id, retryCount, status]
  processing,     \* CommandQueue.processing
  saveTimeout,    \* CommandQueue.saveTimeout: "null" | "armed" | "fired"
  orphanTimers,   \* armed debounce timers whose handle saveTimeout lost
  storageOps,     \* AsyncStorage operations on QUEUE_KEY, in issue order
  store,          \* durable value under QUEUE_KEY (NoItem or Item(queue))
  initPc,         \* CommandQueue.init(): "notstarted" | "reading" | "done"
  drain,          \* per processQueue() invocation: [pc, todo], and as
                  \* history of the pass: snap, the ids that were 'pending'
                  \* or 'failed' below the ceiling when it started; sent,
                  \* the ids it has handed to Transport; from, nextId when
                  \* it started
  adding,         \* ids whose addCommand() is suspended at line 48
  nextId,         \* next fresh command id
  restarts,       \* process restarts so far
  attempts,       \* history: deliveries started per command id, counted
                  \* up to MAX_RETRIES + 1
  live,           \* history: ids accepted and not delivered/dropped/cleared
  sinceClear,     \* history of the last clearQueue(), "none" after an enqueue:
                  \* "called" | "returned" | "reloaded" (by init after restart)
  bootId,         \* history: nextId when the running process started
  faults,         \* history: values of nextId when an AsyncStorage operation
                  \* on QUEUE_KEY was rejected
  refused,        \* history: ids of the commands whose delivery Transport
                  \* rejected with status 401
  acked           \* history: ids of the commands whose delivery Transport
                  \* has answered with success

VARIABLES
  now,              \* Date.now()
  pendingRequests,  \* key -> [req, timestamp], req = 0: no entry
  reqs,             \* Transport read calls: [key, state, at, settledAt]
  calls             \* history of deviceAPI read calls: [key, req, at, fresh,
                    \* inflight]

VARIABLES
  cachedAuthToken,    \* api.ts line 208, Null or a token
  tokenCachePromise,  \* api.ts line 209: 0 (null) or the index of a read
  tokenReads,         \* durable reads started by initializeTokenCache:
                      \* [state, value]
  tokenStore,         \* durable value under AUTH_TOKEN_KEY
  authOps,            \* AsyncStorage operations on the credential, in order
  tokenCalls,         \* history of interceptor look-ups: [read, value, cold]
  oldTokens,          \* history: tokens held by memory or the durable store
                      \* before the last completed clear, and not carried by
                      \* a login started or still writing its token after it
  delivered           \* history: errors handed to callers by the response
                      \* interceptor: [status, isAuthError, cleared], cleared:
                      \* the handler left memory without a credential

VARIABLES
  snapshots,          \* the data two successive polls fetch
  polled,             \* polls done
  lastDataHashRef,    \* lastDataHashRef.current, per hashData implementation
  data                \* the screen's state set by setData, per implementation

VARIABLES
  held,               \* the array a caller got from getQueuedCommands(): the
                      \* command objects it refers to, as Entry
  count,              \* the last result of getPendingCount()
  edits               \* history: changes the caller made to what it holds

VARIABLES
  writes,             \* Transport write calls: [endpoint, state]
  wcalls              \* history: deviceAPI write calls made

qvars == <<queue, processing, saveTimeout, orphanTimers, storageOps, store,
           initPc, drain, adding, nextId, restarts, attempts, live, sinceClear,
           bootId, faults, refused, acked>>

rvars == <<now, pendingRequests, reqs, calls>>

tvars == <<cachedAuthToken, tokenCachePromise, tokenReads, tokenStore, authOps,
           tokenCalls, oldTokens, delivered>>

hvars == <<snapshots, polled, lastDataHashRef, data>>

cvars == <<held, count, edits>>

wvars == <<writes, wcalls>>

vars == <<qvars, rvars, tvars, hvars, cvars, wvars>>

\* ----------------------------------------------------------------- helpers
Range(s) == {s[i] : i \in 1..Len(s)}

QueueIds(q) == {q[i].id : i \in 1..Len(q)}

\* Mutant: the filter keeps the command it should remove (=== for !==).
FilterOut_Inverted(q, id) == SelectSeq(q, LAMBDA c : c.id = id)

\* Array.prototype.filter(c => c.id !== id)
FilterOut(q, id) == SelectSeq(q, LAMBDA c : c.id # id)

\* Mutant: the drain takes every command of the queue, whatever its status.
PendingCommands_All(q) == q

\* this.queue.filter(cmd => cmd.status === 'pending' || cmd.status === 'failed')
PendingCommands(q) == SelectSeq(q, LAMBDA c : c.status \in {"pending", "failed"})

IdleDrain == [pc |-> "idle", todo |-> <<>>, snap |-> {}, sent |-> {}, from |-> 0]

\* The commands a pass starting on q is to deliver: status 'pending' or
\* 'failed' (line 64), retryCount below the ceiling (line 68).
Deliverable(q) ==
  {c.id : c \in {x \in Range(q) : /\ x.status \in {"pending", "failed"}
                                 /\ x.retryCount < MAX_RETRIES}}

\* A continuation of an already resolved promise is waiting to run.
Microtasks ==
  \/ adding # {}
  \/ \E d \in DrainSlots : drain[d].pc \in {"await77", "await85"}

ActiveDrains == {d \in DrainSlots : drain[d].pc # "idle"}

\* ------------------------------------------- pendingRequests (api.ts)
\* getCacheKey(url, method) for the read endpoints that are called
Keys == {"GET:/me/devices", "GET:/devices/D1/current"}

NoEntry == [req |-> 0, timestamp |-> 0]

\* Mutant: no deduplication, as in the calls before the registry was added.
Reusable_Never(pending, t) == FALSE

\* Mutant: the test is inverted, only stale entries are reused.
Reusable_Inverted(pending, t) ==
  pending.req # 0 /\ t - pending.timestamp >= REQUEST_CACHE_TTL

\* pending && Date.now() - pending.timestamp < REQUEST_CACHE_TTL, line 464
Reusable(pending, t) ==
  pending.req # 0 /\ t - pending.timestamp < REQUEST_CACHE_TTL

\* Mutant: no sweep, an entry leaves the registry only when its key settles.
CleanupCache_Skipped(reg, t) == reg

\* cleanupCache(), lines 262-269
CleanupCache(reg, t) ==
  [k \in Keys |->
     IF reg[k].req # 0 /\ t - reg[k].timestamp > REQUEST_CACHE_TTL
       THEN NoEntry ELSE reg[k]]

\* cleanupAndCache(key, promise) up to line 277
CleanupAndCache(reg, k, r, t) ==
  [CleanupCache(reg, t) EXCEPT ![k] = [req |-> r, timestamp |-> t]]

\* Mutant: the entry outlives its request, only the TTL ends it.
DeleteKey_Never(reg, k) == reg

\* pendingRequests.delete(key), line 281
DeleteKey(reg, k) == [reg EXCEPT ![k] = NoEntry]

\* The clock advances.
Tick ==
  /\ now < MaxTicks * TickMs
  /\ now' = now + TickMs
  /\ UNCHANGED <<pendingRequests, reqs, calls>>
  /\ UNCHANGED <<qvars, tvars, hvars, cvars, wvars>>

\* deviceAPI.getMyDevices / getDeviceStatus / getDeviceCurrentStatus /
\* getDeviceAlerts for key k, e.g. lines 460-472.
ReadCall(k) ==
  /\ Len(calls) < MaxCalls
  /\ IF Reusable(pendingRequests[k], now)
       THEN /\ calls' = Append(calls,
                 [key |-> k, req |-> pendingRequests[k].req, at |-> now,
                  fresh |-> FALSE,
                  inflight |-> reqs[pendingRequests[k].req].state = "inflight"])
            /\ UNCHANGED <<pendingRequests, reqs>>
       ELSE /\ Len(reqs) < MaxReqs
            /\ reqs' = Append(reqs, [key |-> k, state |-> "inflight", at |-> now,
                                     settledAt |-> 0])
            /\ pendingRequests' = CleanupAndCache(pendingRequests, k, Len(reqs) + 1, now)
            /\ calls' = Append(calls,
                 [key |-> k, req |-> Len(reqs) + 1, at |-> now, fresh |-> TRUE,
                  inflight |-> TRUE])
  /\ UNCHANGED now
  /\ UNCHANGED <<qvars, tvars, hvars, cvars, wvars>>

\* The Transport call r settles and the finally callback of lines 280-282
\* runs; every caller holding the promise observes the outcome.
ReadSettle(r, ok) ==
  /\ r \in 1..Len(reqs)
  /\ reqs[r].state = "inflight"
  /\ reqs' = [reqs EXCEPT ![r].state = IF ok THEN "ok" ELSE "err",
                          ![r].settledAt = now]
  /\ pendingRequests' = DeleteKey(pendingRequests, reqs[r].key)
  /\ UNCHANGED <<now, calls>>
  /\ UNCHANGED <<qvars, tvars, hvars, cvars, wvars>>


\* ------------------------------------------- deviceAPI write calls (api.ts)
\* method and path of registerDevice, removeDevice, toggleArmedState and
\* sendCommand for device D1
WriteEndpoints == {"POST:/devices/register", "DELETE:/devices/D1",
                   "POST:/devices/D1/toggle", "POST:/api/send/D1"}

\* Mutant: an identical write already in flight is reused.
StartWrite_Shared(ws, e) ==
  IF \E w \in 1..Len(ws) : ws[w].endpoint = e /\ ws[w].state = "inflight"
    THEN ws
    ELSE Append(ws, [endpoint |-> e, state |-> "inflight"])

\* await api.post(...) / api.delete(...), lines 448, 456, 503, 508: the
\* call goes to Transport.
StartWrite(ws, e) == Append(ws, [endpoint |-> e, state |-> "inflight"])

\* deviceAPI.registerDevice / removeDevice / toggleArmedState / sendCommand
WriteCall(e) ==
  /\ wcalls < MaxWrites
  /\ wcalls' = wcalls + 1
  /\ writes' = StartWrite(writes, e)
  /\ UNCHANGED <<qvars, rvars, tvars, hvars, cvars>>

\* The Transport call of a write settles, lines 452, 457, 504, 509.
WriteSettle(w, ok) ==
  /\ w \in 1..Len(writes)
  /\ writes[w].state = "inflight"
  /\ writes' = [writes EXCEPT ![w].state = IF ok THEN "ok" ELSE "err"]
  /\ UNCHANGED wcalls
  /\ UNCHANGED <<qvars, rvars, tvars, hvars, cvars>>

\* --------------------------------------------- hashData, change detection
\* JavaScript values
Num(n) == [t |-> "number", n |-> n]
Str(x) == [t |-> "string", s |-> x]
NullV == [t |-> "null"]
Undefined == [t |-> "undefined"]
Arr(a) == [t |-> "array", a |-> a]
\* an object: its own keys in insertion order, each with its value
Obj(o) == [t |-> "object", o |-> o]

HashKeys == {"a", "b"}
\* Array.prototype.sort() without comparator: UTF-16 code unit order
KeyOrder == <<"a", "b">>

Primitives == {Num(1), Num(2), Str("1"), Str("a"), Str("b"), Str("a,b"),
               Str("null"), NullV}
ArrElems == {Num(1), Num(2), Str("a"), Str("b"), Str("a,b"), Undefined}
ObjVals == {Num(1), Num(2)}

SeqsUpTo(S, n) == UNION {[1..m -> S] : m \in 0..n}

Arrays == {Arr(a) : a \in SeqsUpTo(ArrElems, MaxHashLen)}
Objects ==
  {Obj(o) : o \in {q \in SeqsUpTo([k : HashKeys, v : ObjVals], MaxHashLen) :
                     \A i, j \in 1..Len(q) : i # j => q[i].k # q[j].k}}
Values == Primitives \cup Arrays \cup Objects

\* Array.prototype.join(sep)
RECURSIVE Join(_, _)
Join(strs, sep) ==
  IF Len(strs) = 0 THEN ""
  ELSE IF Len(strs) = 1 THEN strs[1]
  ELSE strs[1] \o sep \o Join(Tail(strs), sep)

\* Object.keys(data), as a set
OwnKeys(o) == {o[i].k : i \in 1..Len(o)}

\* data[key]
Get(o, key) == o[CHOOSE i \in 1..Len(o) : o[i].k = key].v

\* String(data) for a primitive
String(v) ==
  CASE v.t = "number" -> ToString(v.n)
    [] v.t = "string" -> v.s
    [] v.t = "null" -> "null"
    [] v.t = "undefined" -> "undefined"

\* hashData of src/unnamed/part_003, lines 14-37
RECURSIVE hashDataStructural(_)
hashDataStructural(v) ==
  IF v.t \notin {"array", "object"} THEN String(v)
  ELSE IF v.t = "array"
    THEN "[" \o Join([i \in 1..Len(v.a) |-> hashDataStructural(v.a[i])], ",") \o "]"
    ELSE LET sortedKeys == SelectSeq(KeyOrder, LAMBDA k : k \in OwnKeys(v.o))
             pairs == [i \in 1..Len(sortedKeys) |->
                         sortedKeys[i] \o ":" \o
                         hashDataStructural(Get(v.o, sortedKeys[i]))]
         IN "{" \o Join(pairs, ",") \o "}"

\* JSON.stringify(data) for the values above (no character of the strings
\* needs escaping): an undefined array element is written null, an
\* undefined property is left out, keys come in insertion order.
RECURSIVE Stringify(_)
Stringify(v) ==
  CASE v.t = "number" -> ToString(v.n)
    [] v.t = "string" -> "\"" \o v.s \o "\""
    [] v.t = "null" -> "null"
    [] v.t = "array" ->
         "[" \o Join([i \in 1..Len(v.a) |->
                        IF v.a[i].t = "undefined" THEN "null"
                        ELSE Stringify(v.a[i])], ",") \o "]"
    [] v.t = "object" ->
         LET own == SelectSeq(v.o, LAMBDA e : e.v.t # "undefined")
         IN "{" \o Join([i \in 1..Len(own) |->
                           "\"" \o own[i].k \o "\":" \o Stringify(own[i].v)], ",")
                \o "}"

\* hashData of src/utils/performance-utils.ts, lines 11-17
hashData(v) == Stringify(v)

Impls == {"util", "structural"}

\* loadData of the polling screens: setData only when the hash differs.
Poll ==
  /\ polled < Len(snapshots)
  /\ LET d == snapshots[polled + 1]
         newHash == [util |-> hashData(d), structural |-> hashDataStructural(d)]
     IN /\ lastDataHashRef' = [m \in Impls |->
             IF newHash[m] # lastDataHashRef[m] THEN newHash[m]
             ELSE lastDataHashRef[m]]
        /\ data' = [m \in Impls |->
             IF newHash[m] # lastDataHashRef[m] THEN d ELSE data[m]]
  /\ polled' = polled + 1
  /\ UNCHANGED snapshots
  /\ UNCHANGED <<qvars, rvars, tvars, cvars, wvars>>

\* ------------------------------------- credential cache (api.ts 207-245)
Null == "null"
Tokens == {"t1", "t2"}

\* Mutant: the memoised promise is not consulted, every cold look-up reads.
MemoisedRead_Ignored(promise) == 0

\* Lines 219-221: the in-flight (or resolved) initialisation to wait for.
MemoisedRead(promise) == promise

\* updateCachedToken(token), lines 239-242.
UpdateCachedToken(token) ==
  /\ cachedAuthToken' = token
  /\ tokenCachePromise' = 0

\* The request interceptor, line 298: cachedAuthToken ?? await
\* initializeTokenCache() (lines 212-236).
GetToken ==
  /\ Len(tokenCalls) < MaxTokenCalls
  /\ IF cachedAuthToken # Null
       THEN /\ tokenCalls' = Append(tokenCalls,
                 [read |-> 0, value |-> cachedAuthToken, cold |-> FALSE])
            /\ UNCHANGED <<tokenCachePromise, tokenReads, authOps>>
       ELSE IF MemoisedRead(tokenCachePromise) # 0
         THEN /\ tokenCalls' = Append(tokenCalls,
                   [read |-> tokenCachePromise, value |-> Null,
                    cold |-> tokenReads[tokenCachePromise].state = "pending"])
              /\ UNCHANGED <<tokenCachePromise, tokenReads, authOps>>
         ELSE /\ Len(tokenReads) < MaxReads
              /\ Len(authOps) < MaxAuthOps
              /\ tokenReads' = Append(tokenReads, [state |-> "pending", value |-> Null])
              /\ tokenCachePromise' = Len(tokenReads) + 1
              /\ authOps' = Append(authOps,
                   [kind |-> "read", read |-> Len(tokenReads) + 1, value |-> Null,
                    origin |-> Null])
              /\ tokenCalls' = Append(tokenCalls,
                   [read |-> Len(tokenReads) + 1, value |-> Null, cold |-> TRUE])
  /\ UNCHANGED <<cachedAuthToken, tokenStore, oldTokens, delivered>>
  /\ UNCHANGED <<qvars, rvars, hvars, cvars, wvars>>

\* A response has come back: its request passed the interceptor, which
\* waits at line 298 for the read started at module load.
Answered == tokenReads[1].state = "resolved"

\* authAPI.login / register, lines 391-393 and 400-402: the server has
\* answered with the user's token, the first write is issued.
LoginStart(t) ==
  /\ Answered
  /\ Len(authOps) < MaxAuthOps
  /\ authOps' = Append(authOps,
       [kind |-> "setToken", read |-> 0, value |-> t, origin |-> Null])
  /\ oldTokens' = oldTokens \ {t}
  /\ UNCHANGED <<cachedAuthToken, tokenCachePromise, tokenReads, tokenStore,
                 tokenCalls, delivered>>
  /\ UNCHANGED <<qvars, rvars, hvars, cvars, wvars>>

\* error.response?.status values other than 401 (0: no response)
OtherStatuses == {0, 500}

\* authAPI.logout line 409 (origin "logout"), and the response interceptor
\* on a 401, lines 336-339 (origin "401"): multiRemove is issued.
ClearStart(origin) ==
  /\ Len(authOps) < MaxAuthOps
  /\ origin = "401" => Answered /\ Cardinality(delivered) < MaxDelivered
  /\ authOps' = Append(authOps,
       [kind |-> "remove", read |-> 0, value |-> Null, origin |-> origin])
  /\ UNCHANGED <<cachedAuthToken, tokenCachePromise, tokenReads, tokenStore,
                 tokenCalls, oldTokens, delivered>>
  /\ UNCHANGED <<qvars, rvars, hvars, cvars, wvars>>

\* DashboardScreen.handleLogout, lines 241-260: the screen removes the
\* stored keys itself, authAPI.logout() is not called.
HandleLogout ==
  /\ Answered
  /\ Len(authOps) < MaxAuthOps
  /\ authOps' = Append(authOps,
       [kind |-> "screenRemove", read |-> 0, value |-> Null, origin |-> Null])
  /\ UNCHANGED <<cachedAuthToken, tokenCachePromise, tokenReads, tokenStore,
                 tokenCalls, oldTokens, delivered>>
  /\ UNCHANGED <<qvars, rvars, hvars, cvars, wvars>>

\* Mutant: every failed response is handled as an authentication rejection.
IsAuthRejection_Any(status) == TRUE

\* if (status === 401), line 336
IsAuthRejection(status) == status = 401

\* The response interceptor on an error whose status is not 401, lines
\* 322-334 and 346: the error is rejected as it came.
ErrorResponse(status) ==
  /\ Answered
  /\ Cardinality(delivered) < MaxDelivered
  /\ IF IsAuthRejection(status)
       THEN /\ Len(authOps) < MaxAuthOps
            /\ authOps' = Append(authOps,
                 [kind |-> "remove", read |-> 0, value |-> Null, origin |-> "401"])
            /\ UNCHANGED delivered
       ELSE /\ delivered' = delivered \cup
                 {[status |-> status, isAuthError |-> FALSE, cleared |-> FALSE]}
            /\ UNCHANGED authOps
  /\ UNCHANGED <<cachedAuthToken, tokenCachePromise, tokenReads, tokenStore,
                 tokenCalls, oldTokens>>
  /\ UNCHANGED <<qvars, rvars, hvars, cvars, wvars>>

\* AsyncStorage completes its oldest operation on the credential.
AuthOpDone(ok) ==
  /\ authOps # <<>>
  /\ LET op == Head(authOps) IN
     CASE op.kind = "read" ->
            \* lines 225-233
            /\ authOps' = Tail(authOps)
            /\ tokenReads' = [tokenReads EXCEPT ![op.read] =
                 [state |-> "resolved", value |-> IF ok THEN tokenStore ELSE Null]]
            /\ cachedAuthToken' = IF ok THEN tokenStore ELSE cachedAuthToken
            /\ tokenCachePromise' = IF ok THEN tokenCachePromise ELSE 0
            /\ UNCHANGED <<tokenStore, oldTokens, delivered>>
       [] op.kind = "setToken" ->
            \* lines 393-394, 402-403: the second write follows the first;
            \* a rejected write rejects login / register
            /\ tokenStore' = IF ok THEN op.value ELSE tokenStore
            /\ authOps' = IF ok
                 THEN Append(Tail(authOps),
                        [kind |-> "setUser", read |-> 0, value |-> op.value,
                         origin |-> Null])
                 ELSE Tail(authOps)
            /\ UNCHANGED <<cachedAuthToken, tokenCachePromise, tokenReads,
                           oldTokens, delivered>>
       [] op.kind = "setUser" ->
            \* lines 394-395, 403-404
            /\ authOps' = Tail(authOps)
            /\ IF ok THEN UpdateCachedToken(op.value)
                     ELSE UNCHANGED <<cachedAuthToken, tokenCachePromise>>
            /\ UNCHANGED <<tokenStore, tokenReads, oldTokens, delivered>>
       [] op.kind = "remove" ->
            \* lines 339-346, 409-410: a rejected multiRemove rejects the
            \* interceptor (or logout) before updateCachedToken and before
            \* the error is flagged
            /\ tokenStore' = IF ok THEN Null ELSE tokenStore
            /\ authOps' = Tail(authOps)
            /\ IF ok THEN UpdateCachedToken(Null)
                     ELSE UNCHANGED <<cachedAuthToken, tokenCachePromise>>
            /\ oldTokens' = IF ok
                 THEN ((oldTokens \cup {tokenStore, cachedAuthToken}) \ {Null})
                        \ {authOps[i].value : i \in {j \in 1..Len(authOps) :
                                                  authOps[j].kind = "setToken"}}
                 ELSE oldTokens
            /\ delivered' = IF op.origin = "401"
                 THEN delivered \cup {[status |-> 401, isAuthError |-> ok,
                                       cleared |-> cachedAuthToken' = Null]}
                 ELSE delivered
            /\ UNCHANGED tokenReads
       [] op.kind = "screenRemove" ->
            \* DashboardScreen lines 252-260: the keys are removed, a
            \* rejection is swallowed by the empty catch; memory is not
            \* touched
            /\ tokenStore' = IF ok THEN Null ELSE tokenStore
            /\ authOps' = Tail(authOps)
            /\ UNCHANGED <<cachedAuthToken, tokenCachePromise, tokenReads,
                           oldTokens, delivered>>
  /\ UNCHANGED tokenCalls
  /\ UNCHANGED <<qvars, rvars, hvars, cvars, wvars>>

\* --------------------------------------------------------- CommandQueue
\* A command object as the drain sees it through its pendingCommands
\* snapshot: att says whether the object is still the one held by
\* this.queue (clearQueue and init replace the array and its objects).
Entry(c) == [id |-> c.id, retryCount |-> c.retryCount, status |-> c.status,
             att |-> TRUE]

\* Mutant: the pass walks its snapshot from the newest command to the oldest.
Snapshot_Reversed(q) ==
  [i \in 1..Len(PendingCommands(q)) |->
     Entry(PendingCommands(q)[Len(PendingCommands(q)) + 1 - i])]

\* const pendingCommands = this.queue.filter(...), lines 63-65: a new array
\* of the queue's objects, in queue order.
Snapshot(q) == [i \in 1..Len(PendingCommands(q)) |-> Entry(PendingCommands(q)[i])]

\* Mutant: the drain works on copies, its assignments never reach the queue.
Touch_Copy(q, e) == q

\* Assignment to a field of cmd: visible in this.queue iff the object is in it.
Touch(q, e) ==
  [i \in 1..Len(q) |->
     IF e.att /\ q[i].id = e.id
       THEN [id |-> e.id, retryCount |-> e.retryCount, status |-> e.status]
       ELSE q[i]]

Detach(todo) == [i \in 1..Len(todo) |-> [todo[i] EXCEPT !.att = FALSE]]

DetachAll == [d \in DrainSlots |-> [drain[d] EXCEPT !.todo = Detach(@)]]

\* Mutant: the ceiling test is > instead of >=.
RECURSIVE SkipExhausted_Gt(_, _)
SkipExhausted_Gt(q, todo) ==
  IF todo = <<>> THEN [queue |-> q, todo |-> <<>>]
  ELSE IF Head(todo).retryCount > MAX_RETRIES
    THEN SkipExhausted_Gt(FilterOut(q, Head(todo).id), Tail(todo))
    ELSE [queue |-> q, todo |-> todo]

\* The head of the for-loop, lines 67-72: commands at the retry ceiling are
\* removed without a delivery attempt.
RECURSIVE SkipExhausted(_, _)
SkipExhausted(q, todo) ==
  IF todo = <<>> THEN [queue |-> q, todo |-> <<>>]
  ELSE IF Head(todo).retryCount >= MAX_RETRIES
    THEN SkipExhausted(FilterOut(q, Head(todo).id), Tail(todo))
    ELSE [queue |-> q, todo |-> todo]

\* Mutant: saveQueue() schedules nothing.
SaveQueue_Skipped(st) == st

\* saveQueue(), lines 121-136: cancel the timer saveTimeout refers to and arm
\* a new one.  The callback is TimerFire below.
SaveQueue(st) == "armed"

\* Mutant: the pass ends without resetting the flag.
FlagAfterPass_Kept(proc) == proc

\* this.processing = false, line 94
FlagAfterPass(proc) == FALSE

\* Lines 67-77 and 94-97: run the loop from `todo` until the next await.
Loop(d, dr, q, todo, proc, lv) ==
  LET r == SkipExhausted(q, todo)
      gone == {todo[i].id : i \in 1..(Len(todo) - Len(r.todo))}
  IN /\ live' = lv \ gone
     /\ saveTimeout' = SaveQueue(saveTimeout)
     /\ IF r.todo = <<>>
          THEN /\ queue' = r.queue
               /\ processing' = FlagAfterPass(proc)
               /\ drain' = [dr EXCEPT ![d] = IdleDrain]
          ELSE LET cmd == [Head(r.todo) EXCEPT !.status = "sending",
                                               !.retryCount = @ + 1]
               IN /\ queue' = Touch(r.queue, cmd)
                  /\ processing' = proc
                  /\ drain' = [dr EXCEPT ![d] =
                                 [dr[d] EXCEPT !.pc = "await77",
                                               !.todo = <<cmd>> \o Tail(r.todo)]]

\* Mutant: the re-entrancy flag is not consulted.
DrainMayStart_NoFlag(proc, q) == ~(Len(q) = 0)

\* The guard of processQueue(), line 59.
DrainMayStart(proc, q) == ~(proc \/ Len(q) = 0)

FreeSlot == CHOOSE d \in DrainSlots :
              /\ drain[d].pc = "idle"
              /\ \A e \in DrainSlots : drain[e].pc = "idle" => d <= e

\* processQueue() from its call to its first await, lines 58-77.
ProcessQueueCall(lv) ==
  IF DrainMayStart(processing, queue)
    THEN Loop(FreeSlot,
              [drain EXCEPT ![FreeSlot] =
                 [IdleDrain EXCEPT !.snap = Deliverable(queue), !.from = nextId]],
              queue, Snapshot(queue), TRUE, lv)
    ELSE /\ live' = lv
         /\ UNCHANGED <<queue, processing, saveTimeout, drain>>

\* init(), line 26: the read is issued.
InitStart ==
  /\ initPc = "notstarted"
  /\ Len(storageOps) < MaxOps
  /\ initPc' = "reading"
  /\ storageOps' = Append(storageOps, [kind |-> "read", data |-> <<>>])
  /\ UNCHANGED <<queue, processing, saveTimeout, orphanTimers, store, drain,
                 adding, nextId, restarts, attempts, live, sinceClear, bootId>>
  /\ UNCHANGED <<faults, refused, acked, rvars, tvars, hvars, cvars, wvars>>

\* Mutant: unshift instead of push.
Push_Front(q, c) == <<c>> \o q

\* this.queue.push(queuedCommand), line 47
Push(q, c) == Append(q, c)

\* addCommand(), lines 36-48: push, saveQueue(), suspend at the await.
Enqueue ==
  /\ nextId <= MaxCmds
  /\ queue' = Push(queue, [id |-> nextId, retryCount |-> 0, status |-> "pending"])
  /\ saveTimeout' = SaveQueue(saveTimeout)
  /\ adding' = adding \cup {nextId}
  /\ nextId' = nextId + 1
  /\ sinceClear' = "none"
  /\ UNCHANGED <<processing, orphanTimers, storageOps, store, initPc, drain,
                 restarts, attempts, live, bootId>>
  /\ UNCHANGED <<faults, refused, acked, rvars, tvars, hvars, cvars, wvars>>

\* addCommand() called once init() has returned.
AddCommand == initPc = "done" /\ Enqueue

\* addCommand() called before init() was called or while its read is in
\* flight: nothing in lines 36-48 looks at whether init() has run.
EarlyAddCommand == initPc # "done" /\ Enqueue

\* addCommand(), lines 50-55: processQueue() is called, the id is returned.
AddResume(i) ==
  /\ i \in adding
  /\ \E d \in DrainSlots : drain[d].pc = "idle"
  /\ adding' = adding \ {i}
  /\ ProcessQueueCall(live \cup ({i} \cap QueueIds(queue)))
  /\ UNCHANGED <<orphanTimers, storageOps, store, initPc, nextId, restarts,
                 attempts, sinceClear, bootId>>
  /\ UNCHANGED <<faults, refused, acked, rvars, tvars, hvars, cvars, wvars>>

\* An external trigger calls processQueue().
ProcessQueue ==
  /\ initPc = "done"
  /\ \E d \in DrainSlots : drain[d].pc = "idle"
  /\ ProcessQueueCall(live)
  /\ UNCHANGED <<orphanTimers, storageOps, store, initPc, adding, nextId,
                 restarts, attempts, sinceClear, bootId>>
  /\ UNCHANGED <<faults, refused, acked, rvars, tvars, hvars, cvars, wvars>>

\* Line 79: deviceAPI.sendCommand is invoked for the current command.
DrainSend(d) ==
  /\ drain[d].pc = "await77"
  /\ drain' = [drain EXCEPT ![d].pc = "inflight",
                             ![d].sent = @ \cup {Head(drain[d].todo).id}]
  /\ attempts' = [attempts EXCEPT ![Head(drain[d].todo).id] =
                                      IF @ > MAX_RETRIES THEN @ ELSE @ + 1]
  /\ UNCHANGED <<queue, processing, saveTimeout, orphanTimers, storageOps,
                 store, initPc, adding, nextId, restarts, live, sinceClear, bootId>>
  /\ UNCHANGED <<faults, refused, acked, rvars, tvars, hvars, cvars, wvars>>

\* Lines 81-85 (ok) and 87-90 (not ok): the Transport call settles.
Settle(d, ok) ==
  /\ drain[d].pc = "inflight"
  /\ ~Microtasks
  /\ LET cmd == Head(drain[d].todo)
         failed == [cmd EXCEPT !.status = "failed"]
     IN IF ok
          THEN /\ queue' = FilterOut(queue, cmd.id)
               /\ live' = live \ {cmd.id}
               /\ drain' = [drain EXCEPT ![d].pc = "await85"]
          ELSE /\ queue' = Touch(queue, failed)
               /\ live' = live
               /\ drain' = [drain EXCEPT ![d] =
                              [drain[d] EXCEPT !.pc = "await85",
                                               !.todo = <<failed>> \o Tail(drain[d].todo)]]
  /\ saveTimeout' = SaveQueue(saveTimeout)
  /\ UNCHANGED <<processing, orphanTimers, storageOps, store, initPc, adding,
                 nextId, restarts, attempts, sinceClear, bootId>>
  /\ UNCHANGED <<faults, rvars, tvars, hvars, cvars, wvars>>

\* The call resolves, or rejects with an error that is not a 401.
TransportSettle(d, ok) ==
  /\ Settle(d, ok)
  /\ UNCHANGED <<refused, acked>>

\* The call resolves (line 81), with the acknowledgement kept as history.
TransportAcks(d) ==
  /\ Settle(d, TRUE)
  /\ acked' = acked \cup {Head(drain[d].todo).id}
  /\ UNCHANGED refused

\* The call rejects with the 401 error the response interceptor passes on
\* (api.ts line 346): the catch block of lines 87-90 does not look at the
\* error it catches.
TransportRefuses(d) ==
  /\ Settle(d, FALSE)
  /\ refused' = refused \cup {Head(drain[d].todo).id}
  /\ UNCHANGED acked

\* Mutant: a failed delivery ends the pass (a break in the catch block).
Rest_AbortOnFailure(todo) ==
  IF Head(todo).status = "failed" THEN <<>> ELSE Tail(todo)

\* for (const cmd of pendingCommands), line 67: after the try/catch the
\* loop goes to the element after the current one, whatever the outcome.
Rest(todo) == Tail(todo)

\* The loop goes on with the next command of the snapshot, or ends (94-97).
DrainResume(d) ==
  /\ drain[d].pc = "await85"
  /\ Loop(d, drain, queue, Rest(drain[d].todo), processing, live)
  /\ UNCHANGED <<orphanTimers, storageOps, store, initPc, adding, nextId,
                 restarts, attempts, sinceClear, bootId>>
  /\ UNCHANGED <<faults, refused, acked, rvars, tvars, hvars, cvars, wvars>>

\* Mutant: the queue is serialised before line 101 has emptied it.
ClearData_BeforeReset(q) == q

\* What saveQueueImmediate() serialises (line 146) when clearQueue() calls it:
\* this.queue after line 101.
ClearData(q) == <<>>

\* clearQueue() up to the await inside saveQueueImmediate(), lines 100-108
\* and 139-146.
ClearQueue ==
  /\ initPc = "done"
  /\ Len(storageOps) < MaxOps
  /\ queue' = <<>>
  /\ drain' = DetachAll
  /\ saveTimeout' = "null"
  /\ storageOps' = Append(storageOps, [kind |-> "clear", data |-> ClearData(queue)])
  /\ live' = {}
  /\ sinceClear' = "called"
  /\ UNCHANGED <<processing, orphanTimers, store, initPc, adding, nextId,
                 restarts, attempts, bootId>>
  /\ UNCHANGED <<faults, refused, acked, rvars, tvars, hvars, cvars, wvars>>

\* The debounce timer saveTimeout refers to fires: lines 128-130, the write
\* is issued with the queue as it is now.
TimerFire ==
  /\ saveTimeout = "armed"
  /\ ~Microtasks
  /\ Len(storageOps) < MaxOps
  /\ saveTimeout' = "fired"
  /\ storageOps' = Append(storageOps, [kind |-> "save", data |-> queue])
  /\ UNCHANGED <<queue, processing, orphanTimers, store, initPc, drain, adding,
                 nextId, restarts, attempts, live, sinceClear, bootId>>
  /\ UNCHANGED <<faults, refused, acked, rvars, tvars, hvars, cvars, wvars>>

\* The same callback of a timer whose handle line 131 has overwritten.
OrphanFire ==
  /\ orphanTimers > 0
  /\ ~Microtasks
  /\ Len(storageOps) < MaxOps
  /\ orphanTimers' = orphanTimers - 1
  /\ storageOps' = Append(storageOps, [kind |-> "save", data |-> queue])
  /\ UNCHANGED <<queue, processing, saveTimeout, store, initPc, drain, adding,
                 nextId, restarts, attempts, live, sinceClear, bootId>>
  /\ UNCHANGED <<faults, refused, acked, rvars, tvars, hvars, cvars, wvars>>

\* Which operation AsyncStorage completes next: the oldest one.
NextOp(ops) == 1

Remove(ops, k) == [i \in 1..(Len(ops) - 1) |-> IF i < k THEN ops[i] ELSE ops[i + 1]]

\* Mutant: init() has no catch, a rejected read leaves it unfinished.
InitReturns_Throws(ok) == IF ok THEN "done" ELSE "reading"

\* init() returns whether the read succeeded or not (catch, lines 30-33).
InitReturns(ok) == "done"

\* AsyncStorage completes an operation; ok = FALSE is a rejected promise.
StorageDone(ok) ==
  /\ storageOps # <<>>
  /\ ~Microtasks
  /\ LET k == NextOp(storageOps)
         op == storageOps[k]
     IN /\ storageOps' = Remove(storageOps, k)
        /\ store' = IF ok /\ op.kind \in {"save", "clear"} THEN Item(op.data) ELSE store
        /\ CASE op.kind = "save" ->
                  \* lines 130-134
                  /\ saveTimeout' = IF ok THEN "null" ELSE saveTimeout
                  /\ orphanTimers' = IF ok /\ saveTimeout = "armed"
                                       THEN orphanTimers + 1 ELSE orphanTimers
                  /\ orphanTimers' <= MaxOrphans
                  /\ UNCHANGED <<queue, drain, initPc, sinceClear>>
             [] op.kind = "clear" ->
                  \* lines 145-149 and 108: clearQueue() returns
                  /\ sinceClear' =
                       IF /\ sinceClear = "called"
                          /\ \A j \in 1..Len(storageOps') : storageOps'[j].kind # "clear"
                         THEN "returned" ELSE sinceClear
                  /\ UNCHANGED <<queue, drain, initPc, saveTimeout, orphanTimers>>
             [] op.kind = "read" ->
                  \* lines 26-33: init() returns
                  /\ initPc' = InitReturns(ok)
                  /\ queue' = IF ok /\ store.has THEN store.data ELSE queue
                  /\ drain' = IF ok /\ store.has THEN DetachAll ELSE drain
                  /\ sinceClear' = IF sinceClear = "returned" /\ restarts > 0
                                     THEN "reloaded" ELSE sinceClear
                  /\ UNCHANGED <<saveTimeout, orphanTimers>>
  /\ faults' = IF ok THEN faults ELSE faults \cup {nextId}
  /\ Cardinality(faults') <= MaxFaults
  /\ UNCHANGED <<processing, adding, nextId, restarts, attempts, live, bootId,
                 refused, acked>>
  /\ UNCHANGED <<rvars, tvars, hvars, cvars, wvars>>

\* The process is killed and started again: memory is lost, the durable
\* store is kept, operations not yet served by AsyncStorage are lost.
Restart ==
  /\ restarts < MaxRestarts
  /\ restarts' = restarts + 1
  /\ queue' = <<>>
  /\ processing' = FALSE
  /\ saveTimeout' = "null"
  /\ orphanTimers' = 0
  /\ storageOps' = <<>>
  /\ initPc' = "notstarted"
  /\ drain' = [d \in DrainSlots |-> IdleDrain]
  /\ adding' = {}
  /\ bootId' = nextId
  /\ UNCHANGED <<store, nextId, attempts, live, sinceClear>>
  /\ UNCHANGED <<faults, refused, acked, rvars, tvars, hvars, cvars, wvars>>

\* --------------------------------------- callers of the read-only queries
\* getPendingCount(), lines 111-115.
GetPendingCount ==
  /\ initPc = "done"
  /\ count' = Len(PendingCommands(queue))
  /\ UNCHANGED <<held, edits>>
  /\ UNCHANGED <<qvars, rvars, tvars, hvars, wvars>>

\* getQueuedCommands(), lines 117-119: a new array of the same objects.
GetQueuedCommands ==
  /\ initPc = "done"
  /\ held' = [i \in 1..Len(queue) |-> Entry(queue[i])]
  /\ UNCHANGED <<count, edits>>
  /\ UNCHANGED <<qvars, rvars, tvars, hvars, wvars>>

\* The caller removes the first element of the array it holds.
CallerEditsList ==
  /\ held # <<>>
  /\ edits < MaxEdits
  /\ edits' = edits + 1
  /\ held' = Tail(held)
  /\ UNCHANGED count
  /\ UNCHANGED <<qvars, rvars, tvars, hvars, wvars>>

\* The caller assigns to fields of the k-th command it holds: the object is
\* the one this.queue and a running drain refer to.
CallerEditsCommand(k) ==
  /\ k \in 1..Len(held)
  /\ edits < MaxEdits
  /\ edits' = edits + 1
  /\ LET e == [held[k] EXCEPT !.status = "pending", !.retryCount = 0]
     IN /\ held' = [held EXCEPT ![k] = e]
        /\ queue' = Touch(queue, e)
        /\ drain' = [d \in DrainSlots |->
             [drain[d] EXCEPT !.todo =
                [i \in 1..Len(@) |-> IF @[i].id = e.id /\ @[i].att THEN e ELSE @[i]]]]
  /\ UNCHANGED count
  /\ UNCHANGED <<processing, saveTimeout, orphanTimers, storageOps, store,
                 initPc, adding, nextId, restarts, attempts, live, sinceClear,
                 bootId, faults, refused, acked>>
  /\ UNCHANGED <<rvars, tvars, hvars, wvars>>

\* The program's state once its modules are loaded.
InitState ==
  /\ queue = <<>>
  /\ processing = FALSE
  /\ saveTimeout = "null"
  /\ orphanTimers = 0
  /\ storageOps = <<>>
  /\ store = NoItem
  /\ initPc = "notstarted"
  /\ drain = [d \in DrainSlots |-> IdleDrain]
  /\ adding = {}
  /\ nextId = 1
  /\ restarts = 0
  /\ attempts = [i \in CmdIds |-> 0]
  /\ live = {}
  /\ sinceClear = "none"
  /\ bootId = 1
  /\ faults = {}
  /\ refused = {}
  /\ acked = {}
  /\ now = 0
  /\ pendingRequests = [k \in Keys |-> NoEntry]
  /\ reqs = <<>>
  /\ calls = <<>>
  /\ cachedAuthToken = Null
  /\ tokenCachePromise = 1
  /\ tokenReads = <<[state |-> "pending", value |-> Null]>>
  /\ tokenStore \in {Null, "t1"}
  /\ authOps = <<[kind |-> "read", read |-> 1, value |-> Null, origin |-> Null]>>
  /\ tokenCalls = <<>>
  /\ oldTokens = {}
  /\ delivered = {}
  /\ polled = 0
  /\ held = <<>>
  /\ count = 0
  /\ edits = 0
  /\ writes = <<>>
  /\ wcalls = 0
  /\ lastDataHashRef = [m \in Impls |-> ""]
  /\ data = [m \in Impls |-> Undefined]

Init ==
  /\ InitState
  /\ snapshots = <<>>

\* A screen is about to poll twice.
InitPolls ==
  /\ InitState
  /\ snapshots \in Values \X Values

Next ==
  \/ InitStart
  \/ AddCommand
  \/ \E i \in CmdIds : AddResume(i)
  \/ ProcessQueue
  \/ \E d \in DrainSlots : DrainSend(d)
  \/ \E d \in DrainSlots, ok \in BOOLEAN : TransportSettle(d, ok)
  \/ \E d \in DrainSlots : DrainResume(d)
  \/ ClearQueue
  \/ TimerFire
  \/ OrphanFire
  \/ StorageDone(TRUE)
  \/ Restart

Spec == Init /\ [][Next]_vars

\* The read calls of deviceAPI and their Transport calls.
NextReads ==
  \/ Tick
  \/ \E k \in Keys : ReadCall(k)
  \/ \E r \in 1..MaxReqs, ok \in BOOLEAN : ReadSettle(r, ok)

SpecReads == Init /\ [][NextReads]_vars

\* The command queue with AsyncStorage operations that may be rejected.
\* Transport is reachable, so that every failure seen is one of the store.
NextFaulty ==
  \/ InitStart
  \/ AddCommand
  \/ \E i \in CmdIds : AddResume(i)
  \/ ProcessQueue
  \/ \E d \in DrainSlots : DrainSend(d)
  \/ \E d \in DrainSlots : TransportSettle(d, TRUE)
  \/ \E d \in DrainSlots : DrainResume(d)
  \/ ClearQueue
  \/ TimerFire
  \/ OrphanFire
  \/ \E ok \in BOOLEAN : StorageDone(ok)
  \/ Restart

SpecFaulty == Init /\ [][NextFaulty]_vars

\* The command queue with callers that do not wait for init().
NextEarly ==
  \/ Next
  \/ EarlyAddCommand

SpecEarly == Init /\ [][NextEarly]_vars

\* The command queue of one process, Transport unreachable, with a caller
\* of its queries; drains are started by addCommand.
NextCallers ==
  \/ InitStart
  \/ AddCommand
  \/ \E i \in CmdIds : AddResume(i)
  \/ \E d \in DrainSlots : DrainSend(d)
  \/ \E d \in DrainSlots : TransportSettle(d, FALSE)
  \/ \E d \in DrainSlots : DrainResume(d)
  \/ TimerFire
  \/ StorageDone(TRUE)
  \/ GetPendingCount
  \/ GetQueuedCommands
  \/ CallerEditsList
  \/ \E k \in CmdIds : CallerEditsCommand(k)

SpecCallers == Init /\ [][NextCallers]_vars

\* deviceAPI: read calls through the registry next to write calls.
NextWrites ==
  \/ \E k \in Keys : ReadCall(k)
  \/ \E r \in 1..MaxReqs, ok \in BOOLEAN : ReadSettle(r, ok)
  \/ \E e \in WriteEndpoints : WriteCall(e)
  \/ \E w \in 1..MaxWrites, ok \in BOOLEAN : WriteSettle(w, ok)

SpecWrites == Init /\ [][NextWrites]_vars

\* The credential cache: look-ups, login, logout / 401 handling.
NextToken ==
  \/ GetToken
  \/ \E t \in Tokens : LoginStart(t)
  \/ \E origin \in {"logout", "401"} : ClearStart(origin)
  \/ \E status \in OtherStatuses : ErrorResponse(status)
  \/ \E ok \in BOOLEAN : AuthOpDone(ok)

SpecToken == Init /\ [][NextToken]_vars

\* The credential cache with the dashboard's logout button; AsyncStorage
\* serves every operation.
NextDashboard ==
  \/ GetToken
  \/ \E t \in Tokens : LoginStart(t)
  \/ ClearStart("logout")
  \/ HandleLogout
  \/ AuthOpDone(TRUE)

SpecDashboard == Init /\ [][NextDashboard]_vars

\* Change detection of a polling screen.
NextPolls == Poll

SpecPolls == InitPolls /\ [][NextPolls]_vars

\* Transport rejects every delivery; no restart, no clearQueue().
NextOffline ==
  \/ InitStart
  \/ AddCommand
  \/ \E i \in CmdIds : AddResume(i)
  \/ ProcessQueue
  \/ \E d \in DrainSlots : DrainSend(d)
  \/ \E d \in DrainSlots : TransportSettle(d, FALSE)
  \/ \E d \in DrainSlots : DrainResume(d)
  \/ TimerFire
  \/ OrphanFire
  \/ StorageDone(TRUE)

SpecOffline == Init /\ [][NextOffline]_vars

\* Transport answers deliveries with 401 or accepts them; no restart, no
\* clearQueue().
NextRefused ==
  \/ InitStart
  \/ AddCommand
  \/ \E i \in CmdIds : AddResume(i)
  \/ ProcessQueue
  \/ \E d \in DrainSlots : DrainSend(d)
  \/ \E d \in DrainSlots : TransportSettle(d, TRUE)
  \/ \E d \in DrainSlots : TransportRefuses(d)
  \/ \E d \in DrainSlots : DrainResume(d)
  \/ TimerFire
  \/ StorageDone(TRUE)

SpecRefused == Init /\ [][NextRefused]_vars

\* The command queue over process restarts, with the deliveries Transport
\* acknowledged kept as history; no clearQueue().
NextAcked ==
  \/ InitStart
  \/ AddCommand
  \/ \E i \in CmdIds : AddResume(i)
  \/ ProcessQueue
  \/ \E d \in DrainSlots : DrainSend(d)
  \/ \E d \in DrainSlots : TransportAcks(d)
  \/ \E d \in DrainSlots : TransportSettle(d, FALSE)
  \/ \E d \in DrainSlots : DrainResume(d)
  \/ TimerFire
  \/ StorageDone(TRUE)
  \/ Restart

SpecAcked == Init /\ [][NextAcked]_vars

\* One process whose deliveries and durable writes may fail, with
\* clearQueue().
NextDrains ==
  \/ InitStart
  \/ AddCommand
  \/ \E i \in CmdIds : AddResume(i)
  \/ ProcessQueue
  \/ \E d \in DrainSlots : DrainSend(d)
  \/ \E d \in DrainSlots, ok \in BOOLEAN : TransportSettle(d, ok)
  \/ \E d \in DrainSlots : DrainResume(d)
  \/ ClearQueue
  \/ TimerFire
  \/ \E ok \in BOOLEAN : StorageDone(ok)

\* Every Transport call settles and every continuation waiting on a
\* resolved promise is run by the event loop; nothing is assumed of timers,
\* of AsyncStorage or of the callers.
FairDrains ==
  /\ Init /\ [][NextDrains]_vars
  /\ \A i \in CmdIds : WF_vars(AddResume(i))
  /\ \A d \in DrainSlots :
       /\ WF_vars(DrainSend(d))
       /\ WF_vars(DrainResume(d))
       /\ WF_vars(\E ok \in BOOLEAN : TransportSettle(d, ok))

\* Repeated processQueue() calls, every Transport call settles, every
\* continuation, timer and AsyncStorage operation is eventually served.
FairSpec ==
  /\ Init /\ [][Next]_vars
  /\ WF_vars(InitStart)
  /\ WF_vars(ProcessQueue)
  /\ WF_vars(TimerFire)
  /\ WF_vars(OrphanFire)
  /\ WF_vars(StorageDone(TRUE))
  /\ \A i \in CmdIds : WF_vars(AddResume(i))
  /\ \A d \in DrainSlots :
       /\ WF_vars(DrainSend(d))
       /\ WF_vars(DrainResume(d))
       /\ WF_vars(\E ok \in BOOLEAN : TransportSettle(d, ok))

\* ------------------------------------------------------------ properties
InQueue(i) == i \in QueueIds(queue)

Cmd(i) == CHOOSE c \in Range(queue) : c.id = i

Accepted(i) == i < nextId /\ i \notin adding

StoreIds == IF store.has THEN QueueIds(store.data) ELSE {}

\* 1 while retryCount has been incremented for the attempt on i and line 79
\* has not yet been reached.
Gap(i) ==
  IF \E d \in DrainSlots : /\ drain[d].pc = "await77"
                           /\ Head(drain[d].todo).id = i
                           /\ Head(drain[d].todo).att
    THEN 1 ELSE 0

\* A processQueue() call (external or from addCommand) takes a step.
DrainCalled == ProcessQueue \/ \E i \in CmdIds : AddResume(i)

\* C1: every command in the queue is eventually removed from it.
C1_EventuallyRemoved == \A i \in CmdIds : InQueue(i) ~> ~InQueue(i)

C3_AbsentAfterThird ==
  \A i \in CmdIds : (Accepted(i) /\ ActiveDrains = {}) =>
    /\ attempts[i] = 1 => (InQueue(i) /\ Cmd(i).status = "failed"
                                      /\ Cmd(i).retryCount = 1)
    /\ attempts[i] = MAX_RETRIES => ~InQueue(i)

C3_States ==
  \A i \in CmdIds : (Accepted(i) /\ ActiveDrains = {}) =>
    /\ attempts[i] = 1 => (InQueue(i) /\ Cmd(i).status = "failed"
                                      /\ Cmd(i).retryCount = 1)
    /\ attempts[i] <= MAX_RETRIES
    /\ InQueue(i) => Cmd(i).retryCount = attempts[i]
    /\ ~InQueue(i) => attempts[i] = MAX_RETRIES

C3_NextDrainDrops ==
  DrainCalled /\ DrainMayStart(processing, queue) =>
    \A i \in CmdIds :
      (InQueue(i) /\ Cmd(i).status = "failed" /\ Cmd(i).retryCount = MAX_RETRIES)
        => \/ i \notin QueueIds(queue')
           \/ \E d \in DrainSlots :
                \E k \in 2..Len(drain'[d].todo) : drain'[d].todo[k].id = i

\* C3 (amended), Transport always failing: once the drain that made the
\* first attempt is over the command is queued as failed with retryCount 1;
\* after the third failed attempt it stays queued as failed with retryCount
\* 3, never gets a fourth attempt, and is removed by the next drain pass,
\* which drops it without calling Transport.
C3_DroppedByNextDrain == []C3_States /\ [][C3_NextDrainDrops]_vars

C3_Witness ==
  \E i \in CmdIds : /\ ActiveDrains = {} /\ attempts[i] = MAX_RETRIES
                    /\ InQueue(i) /\ Cmd(i).status = "failed"

\* C4: at most one drain pass is active, and a processQueue() call made
\* while one is active changes no command, calls no Transport and schedules
\* no save.
C4_OneDrain ==
  /\ [](Cardinality(ActiveDrains) <= 1 /\ (processing <=> ActiveDrains # {}))
  /\ [][DrainCalled /\ processing =>
          UNCHANGED <<queue, processing, drain, saveTimeout, orphanTimers,
                      storageOps, attempts>>]_vars

\* A drain is active and the processQueue() call of a finished addCommand()
\* found it active: its command is queued, untouched and not in the snapshot.
C4_Witness ==
  \E d \in ActiveDrains : \E i \in CmdIds :
    /\ InQueue(i) /\ Accepted(i)
    /\ Cmd(i).status = "pending" /\ Cmd(i).retryCount = 0
    /\ \A k \in 1..Len(drain[d].todo) : drain[d].todo[k].id # i

CallIx == 1..Len(calls)
ReqIx == 1..Len(reqs)

\* The outcome a caller observes: that of the promise it was handed.
Outcome(c) == reqs[calls[c].req].state

\* The step is a read call for key k.
Called(k) == Len(calls') = Len(calls) + 1 /\ calls'[Len(calls')].key = k

\* C7 (as claimed): calls with the same key issued less than
\* REQUEST_CACHE_TTL apart are served by one Transport call.
C7_WindowSharesRequest ==
  \A c, e \in CallIx :
    (calls[c].key = calls[e].key /\ calls[e].at >= calls[c].at
       /\ calls[e].at - calls[c].at < REQUEST_CACHE_TTL)
      => calls[c].req = calls[e].req

C7_Served ==
  /\ \A r \in ReqIx : Cardinality({c \in CallIx : calls[c].req = r /\ calls[c].fresh}) = 1
  /\ \A c \in CallIx :
       /\ calls[c].req \in ReqIx
       /\ reqs[calls[c].req].key = calls[c].key
       /\ \A e \in CallIx : calls[c].req = calls[e].req => Outcome(c) = Outcome(e)

C7_Reuse ==
  \A k \in Keys :
    (/\ Called(k)
     /\ pendingRequests[k].req # 0
     /\ now - pendingRequests[k].timestamp < REQUEST_CACHE_TTL) =>
    /\ reqs' = reqs
    /\ calls'[Len(calls')].req = pendingRequests[k].req

\* C7 (amended): every call with the same key issued while an entry for the
\* key is in the registry and less than REQUEST_CACHE_TTL old is handed that
\* entry's promise without a Transport call; Transport is invoked exactly
\* once per registered entry and all callers of an entry observe the same
\* outcome.
C7_EntrySharesRequest == []C7_Served /\ [][C7_Reuse]_vars

C7_Witness ==
  \E c, e \in CallIx :
    /\ calls[c].req = calls[e].req /\ calls[c].fresh /\ ~calls[e].fresh
    /\ calls[e].at > calls[c].at
    /\ Outcome(c) = "err" /\ Outcome(e) = "err"

InFlight(k) == {r \in ReqIx : reqs[r].key = k /\ reqs[r].state = "inflight"}

C9_NoSettledOutcome ==
  /\ \A c \in CallIx :
       /\ calls[c].inflight
       /\ calls[c].at - reqs[calls[c].req].at < REQUEST_CACHE_TTL
  /\ \A k \in Keys : pendingRequests[k].req # 0 =>
       reqs[pendingRequests[k].req].state = "inflight"

\* A call made after a request for its key settled, within the TTL of that
\* request's registration, got a fresh Transport call.
C9_Witness ==
  \E c \in CallIx : \E r \in ReqIx :
    /\ reqs[r].key = calls[c].key /\ reqs[r].state # "inflight"
    /\ r < calls[c].req /\ calls[c].fresh
    /\ calls[c].at - reqs[r].at < REQUEST_CACHE_TTL
    /\ reqs[r].settledAt <= calls[c].at

\* ------------------------------------------------------------ C10
PendingReads == {r \in 1..Len(tokenReads) : tokenReads[r].state = "pending"}

\* C10: while the credential cache is cold, at most one durable read of the
\* token is in flight, and every look-up made while a read is in flight waits
\* for that same read (and so receives the same token).
C10_OneColdRead ==
  /\ Cardinality(PendingReads) <= 1
  /\ \A c, d \in 1..Len(tokenCalls) :
       (tokenCalls[c].cold /\ tokenCalls[d].cold
        /\ tokenReads[tokenCalls[c].read].state = "pending"
        /\ tokenReads[tokenCalls[d].read].state = "pending")
         => tokenCalls[c].read = tokenCalls[d].read

\* ------------------------------------------------------------ C11
\* C11: once a clear has completed, memory (what getToken() returns at
\* lines 214-215 and what the interceptor sends at line 298) never holds a
\* token that memory or the durable store held before that clear, unless a
\* login started after it, or still writing its token, carries that token.
C11_NoOldToken == cachedAuthToken \notin oldTokens

\* ------------------------------------------------------------ C12
\* C12: there is no state in which the durable store already holds the
\* credential written by a login while memory does not hold it yet.
C12_MemoryFirst ==
  \A i \in 1..Len(authOps) :
    (authOps[i].kind = "setUser" /\ tokenStore = authOps[i].value)
      => cachedAuthToken = authOps[i].value

\* ------------------------------------------------------------ C13
\* C13: every error delivered for a 401 is flagged isAuthError and leaves
\* memory without a credential; errors with another status are not flagged.
C13_Flagged ==
  \A e \in delivered :
    IF e.status = 401 THEN e.isAuthError /\ e.cleared
                      ELSE ~e.isAuthError

\* ------------------------------------------------------------ C14
\* Same content: equal up to the insertion order of object keys.
RECURSIVE SameContent(_, _)
SameContent(x, y) ==
  IF x.t # y.t THEN FALSE
  ELSE IF x.t = "array"
    THEN /\ Len(x.a) = Len(y.a)
         /\ \A i \in 1..Len(x.a) : SameContent(x.a[i], y.a[i])
  ELSE IF x.t = "object"
    THEN /\ OwnKeys(x.o) = OwnKeys(y.o)
         /\ \A k \in OwnKeys(x.o) : SameContent(Get(x.o, k), Get(y.o, k))
  ELSE x = y

Permuted(a, b) ==
  /\ Len(a) = Len(b)
  /\ \E f \in [1..Len(a) -> 1..Len(a)] :
       /\ \A i, j \in 1..Len(a) : i # j => f[i] # f[j]
       /\ \A i \in 1..Len(a) : b[i] = a[f[i]]

\* C14: for the hashData of utils/performance-utils, objects with the same
\* key/value pairs hash equal whatever the insertion order, and sequences
\* of the same elements in a different order hash differently.
C14_KeyOrderIndependent ==
  polled = 2 =>
    LET x == snapshots[1]
        y == snapshots[2]
    IN /\ (x.t = "object" /\ SameContent(x, y)) => hashData(x) = hashData(y)
       /\ (x.t = "array" /\ y.t = "array" /\ x # y /\ Permuted(x.a, y.a))
            => hashData(x) # hashData(y)

\* ------------------------------------------------------------ C15
\* C15: after two polls whose snapshots differ in content the screen shows
\* the second snapshot (hashData of part_003).
C15_ChangePropagates ==
  (polled = 2 /\ ~SameContent(snapshots[1], snapshots[2]))
    => SameContent(data.structural, snapshots[2])

\* ------------------------------------------------------------ C16
C16_Statuses ==
  \A c \in Range(queue) : c.status \in {"pending", "sending", "failed"}

\* The drain invocation whose current command is i has moved.
DrainStepOn(i) ==
  \E d \in DrainSlots :
    /\ drain'[d] # drain[d]
    /\ \/ drain'[d].pc # "idle" /\ Head(drain'[d].todo).id = i
       \/ drain[d].pc # "idle" /\ Head(drain[d].todo).id = i

C16_Transitions ==
  \A c \in Range(queue) : \A e \in Range(queue') :
    (c.id = e.id /\ c # e) =>
      /\ \/ /\ c.status \in {"pending", "failed"}
            /\ e.status = "sending"
            /\ e.retryCount = c.retryCount + 1
         \/ /\ c.status = "sending"
            /\ e.status = "failed"
            /\ e.retryCount = c.retryCount
      /\ DrainStepOn(c.id)

\* C16: a command in the queue has status pending, sending or failed, never
\* success; while it stays in the queue its status changes only from
\* pending or failed to sending (with retryCount incremented by one) and
\* from sending to failed (retryCount unchanged), and only in a step of the
\* processQueue() invocation that is working on it.
C16_StatusLifecycle == []C16_Statuses /\ [][C16_Transitions]_vars

\* A command has gone pending -> sending -> failed -> sending -> failed.
C16_Witness ==
  \E c \in Range(queue) : c.status = "failed" /\ c.retryCount = 2

\* ------------------------------------------------------------ C17
C17_FailureStep ==
  StorageDone(FALSE) =>
    /\ queue' = queue
    /\ processing' = processing
    /\ drain' = drain
    /\ adding' = adding
    /\ store' = store
    /\ storageOps[1].kind = "read" => initPc' = "done"
    /\ initPc = "done" => initPc' = "done"

\* C17: a rejected AsyncStorage read or write leaves the in-memory queue,
\* the drain flag and every running drain or enqueue as they were, init()
\* still returns, and the queue stays usable: init stays done, so enqueue
\* and drain remain callable and work on the in-memory queue.
C17_FailureNotFatal == [][C17_FailureStep]_vars

\* After a rejected operation a command was enqueued, sent and removed.
C17_Witness ==
  \E f \in faults : \E i \in CmdIds :
       /\ i >= f /\ i < nextId /\ i \notin QueueIds(queue) /\ i \notin adding
       /\ attempts[i] > 0 /\ i >= bootId
       /\ restarts = 0 /\ sinceClear = "none"

\* ------------------------------------------------------------ C18
CallerStep ==
  \/ GetPendingCount
  \/ GetQueuedCommands
  \/ CallerEditsList
  \/ \E k \in CmdIds : CallerEditsCommand(k)

\* C18: getPendingCount(), getQueuedCommands() and whatever the caller does
\* to the returned array or to the commands in it leave the queue, the
\* drain flag, the running drains and the durable store unchanged.
C18_ReadOnly ==
  [][CallerStep => UNCHANGED <<queue, processing, drain, store, storageOps>>]_vars

\* ------------------------------------------------------------ C19
WriteStep ==
  \/ \E e \in WriteEndpoints : WriteCall(e)
  \/ \E w \in 1..MaxWrites, ok \in BOOLEAN : WriteSettle(w, ok)

\* C19: every write call has its own Transport call, also next to an
\* identical one in flight, and a write call or its completion leaves the
\* pending-request registry and the read requests as they are.
C19_WritesNotDeduplicated ==
  /\ [](Len(writes) = wcalls)
  /\ [][WriteStep => UNCHANGED <<pendingRequests, reqs, calls>>]_vars

\* Two identical writes are in flight together while a read is registered.
C19_Witness ==
  /\ \E v, w \in 1..Len(writes) :
       /\ v < w /\ writes[v].endpoint = writes[w].endpoint
       /\ writes[v].state = "inflight" /\ writes[w].state = "inflight"
  /\ \E k \in Keys : pendingRequests[k].req # 0

\* ------------------------------------------------------------ C20
\* C20 (as claimed): when addCommand() returns, its command is the last
\* element of the in-memory queue.
C20_LastWhenReturned ==
  [][\A i \in CmdIds : AddResume(i) =>
       /\ queue' # <<>>
       /\ queue'[Len(queue')].id = i]_vars

\* The queue lists its commands in the order they were enqueued.
C20_EnqueueOrder ==
  \A j, k \in 1..Len(queue) : j < k => queue[j].id < queue[k].id

C20_Return ==
  /\ \A i \in CmdIds : AddResume(i) =>
       /\ attempts'[i] <= 1
       /\ i \in QueueIds(queue) =>
            /\ i \in QueueIds(queue')
            /\ \A c \in Range(queue') : c.id = i =>
                 c.status \in {"pending", "sending"} /\ c.retryCount <= 1
  /\ \A i \in adding :
       (i \in QueueIds(queue) /\ i \notin QueueIds(queue')) =>
          \/ queue' = <<>> /\ sinceClear' = "called"
          \/ restarts' # restarts

\* C20 (amended): addCommand() returns before any Transport call for its
\* command has settled, so without waiting for an outcome; unless
\* clearQueue() was called since the command was appended, the command is
\* in the in-memory queue when addCommand() returns, after every command
\* enqueued earlier and before every command enqueued since.
C20_ReturnsBeforeDelivery == []C20_EnqueueOrder /\ [][C20_Return]_vars

\* addCommand() has returned for command 2, which waits in the queue, while
\* the Transport call for command 1 is in flight.
C20_Witness ==
  /\ 2 < nextId /\ 2 \notin adding /\ 2 \in QueueIds(queue) /\ attempts[2] = 0
  /\ \E d \in DrainSlots :
       drain[d].pc = "inflight" /\ Head(drain[d].todo).id = 1

\* ------------------------------------------------------------ C21
\* A pass ends (processQueue() reaches line 94) in a running process.
PassEnds(d) ==
  /\ drain[d].pc # "idle"
  /\ drain'[d].pc = "idle"
  /\ restarts' = restarts

C21_Pass ==
  \A d \in DrainSlots :
    /\ PassEnds(d) => drain[d].sent = drain[d].snap
    /\ DrainSend(d) => Head(drain[d].todo).id \notin drain[d].sent

\* C21: a pass that ends has handed to Transport exactly the commands that
\* were 'pending' or 'failed' and below the retry ceiling when it started,
\* whatever the outcomes of the other deliveries, and it never hands a
\* command to Transport a second time.
C21_OneAttemptPerPass == [][C21_Pass]_vars

\* A pass has sent both commands of its snapshot, the first delivery failed.
C21_Witness ==
  \E d \in DrainSlots :
    /\ drain[d].pc = "await85"
    /\ drain[d].snap = {1, 2} /\ drain[d].sent = {1, 2}
    /\ Len(drain[d].todo) = 1
    /\ \E c \in Range(queue) : c.id = 1 /\ c.status = "failed"

\* ------------------------------------------------------------ C22
\* C22: once clearQueue() has returned (and nothing was enqueued since), no
\* command that it removed from the queue while the command was waiting is
\* handed to Transport: a drain sends only commands that are still in the
\* queue.
C22_ClearedNeverSent ==
  [][\A d \in DrainSlots :
       (DrainSend(d) /\ sinceClear = "returned") => Head(drain[d].todo).att]_vars

\* ------------------------------------------------------------ C23
\* The commands a running drain still holds after clearQueue() took them
\* out of the queue.
Cleared(d) == {e \in Range(drain[d].todo) : ~e.att}

ClearPending == \E k \in 1..Len(storageOps) : storageOps[k].kind = "clear"

C23_OnlyLater ==
  \A d \in DrainSlots : \A e \in Cleared(d) :
    /\ \A c \in Range(queue) : c.id > e.id
    /\ (~ClearPending /\ store.has) => \A c \in Range(store.data) : c.id > e.id

C23_Settle ==
  \A d \in DrainSlots, ok \in BOOLEAN :
    (TransportSettle(d, ok) /\ ~Head(drain[d].todo).att) =>
       queue' = queue /\ store' = store

Quiet ==
  /\ initPc = "done"
  /\ ActiveDrains = {} /\ adding = {}
  /\ saveTimeout = "null" /\ orphanTimers = 0
  /\ storageOps = <<>>

\* JSON.parse of what is stored, nothing stored read as the empty queue
StoredQueue == IF store.has THEN store.data ELSE <<>>

\* C24: every change of the queue leaves a save scheduled: when the drains
\* have finished, no timer is armed and no write is outstanding, the stored
\* queue equals the in-memory queue, element for element in the same order.
C24_SavedWhenQuiet == Quiet => StoredQueue = queue

\* After a drain whose delivery failed and the write that followed it, the
\* failed command is in memory and in the store.
C24_Witness ==
  /\ Quiet /\ restarts = 0
  /\ \E c \in Range(queue) : c.status = "failed" /\ c.retryCount = 1
  /\ \E c \in Range(queue) : c.status = "pending"
  /\ store = Item(queue)

\* ------------------------------------------------------------ C25
\* Debounce timers that are armed and will fire: the one saveTimeout refers
\* to, and those whose handle was lost.
ScheduledSaves == (IF saveTimeout = "armed" THEN 1 ELSE 0) + orphanTimers

\* C25: at most one debounced write is scheduled at any time.
C25_OneScheduled == ScheduledSaves <= 1

\* ------------------------------------------------------------ C26
\* The commands of the queue that were enqueued after drain d started.
EnqueuedSince(d) == {c \in Range(queue) : c.id >= drain[d].from}

DrainStep(d) ==
  \/ DrainSend(d)
  \/ \E ok \in BOOLEAN : TransportSettle(d, ok)
  \/ DrainResume(d)

C26_Waits ==
  /\ \A d \in ActiveDrains : \A c \in EnqueuedSince(d) :
       /\ c.status = "pending" /\ c.retryCount = 0
       /\ c.id \notin drain[d].sent
       /\ \A e \in Range(drain[d].todo) : e.id # c.id
  /\ \A j \in 1..(Len(queue) - 1) : queue[j].id < queue[j + 1].id

C26_Step ==
  /\ \A d \in DrainSlots :
       /\ DrainStep(d) => EnqueuedSince(d) \subseteq Range(queue')
       /\ (drain[d].pc = "idle" /\ drain'[d].pc # "idle") =>
            \A c \in Range(queue) :
              (c.status = "pending" /\ c.retryCount = 0) =>
                 \E e \in Range(drain'[d].todo) : e.id = c.id /\ e.att
  /\ AddCommand =>
       queue' = queue \o <<[id |-> nextId, retryCount |-> 0, status |-> "pending"]>>
  /\ \A i \in CmdIds : (AddResume(i) /\ processing) => UNCHANGED <<queue, drain>>

\* C26: a command enqueued while a drain is active is appended after the
\* commands already in the queue, stays there unchanged ('pending',
\* retryCount 0) through every step of that drain, is never in its snapshot
\* nor sent by it, the processQueue() call of its addCommand() changes
\* nothing, and the snapshot of the next drain that starts holds it.
C26_EnqueuedDuringDrain == []C26_Waits /\ [][C26_Step]_vars

\* Command 2 was enqueued while the drain was delivering command 1, which
\* has been removed on success since.
C26_Witness ==
  \E d \in DrainSlots :
    /\ drain[d].pc = "await85" /\ drain[d].from = 2
    /\ Head(drain[d].todo).id = 1 /\ Head(drain[d].todo).att
    /\ QueueIds(queue) = {2} /\ 2 \notin adding

\* ------------------------------------------------------------ C27
\* init() returns: its read has been served (lines 26-30).
InitCompletes ==
  /\ storageOps # <<>>
  /\ storageOps[NextOp(storageOps)].kind = "read"
  /\ StorageDone(TRUE)

\* C27: when init() completes the queue holds the stored commands in their
\* stored order when none was accepted before, and every command that
\* addCommand() has put into the queue is still in it.
C27_InitKeepsAccepted ==
  [][InitCompletes =>
       /\ queue = <<>> => queue' = StoredQueue
       /\ QueueIds(queue) \subseteq QueueIds(queue')]_vars

\* ------------------------------------------------------------ C28
\* C28: the durable store is read for the credential once per process
\* lifetime: the read started at module load is the only one, no look-up
\* starts another.
C28_OneDurableRead ==
  /\ Len(tokenReads) = 1
  /\ \A c \in 1..Len(tokenCalls) : tokenCalls[c].read \in {0, 1}

\* ------------------------------------------------------------ C29
\* C29: when the cache is initialised and no operation on the credential is
\* under way, memory and the durable store hold the same token.
C29_MemoryMatchesStore ==
  (Answered /\ authOps = <<>>) => cachedAuthToken = tokenStore

\* ------------------------------------------------------------ C30
\* C30: a command whose delivery Transport rejected with 401 is not handed
\* to Transport again.
C30_RefusedNotRetried ==
  [][\A d \in DrainSlots :
       DrainSend(d) => Head(drain[d].todo).id \notin refused]_vars

\* ------------------------------------------------------------ C31
\* C31: a failed response whose status is not 401 (0: timeout or no
\* response) leaves the in-memory token, the memoised promise and the stored
\* token as they are and issues no AsyncStorage operation on the stored
\* token or user data.
C31_FailureKeepsCredential ==
  [][\A status \in OtherStatuses : ErrorResponse(status) =>
       UNCHANGED <<cachedAuthToken, tokenCachePromise, tokenReads, tokenStore,
                   authOps>>]_vars

\* A logged-in user has received an error with status 500 and one without
\* a response; memory and the store still hold the token.
C31_Witness ==
  /\ \E e \in delivered : e.status = 500
  /\ \E e \in delivered : e.status = 0
  /\ cachedAuthToken = "t2" /\ tokenStore = "t2" /\ tokenCachePromise = 0

\* ------------------------------------------------------------ C32
\* A read call for key k misses the registry and registers a new request.
Registers(k) == ReadCall(k) /\ Len(reqs') = Len(reqs) + 1

C32_Unsettled ==
  \A k \in Keys :
    pendingRequests[k].req # 0 => reqs[pendingRequests[k].req].state = "inflight"

C32_Swept ==
  \A k \in Keys : Registers(k) =>
    \A j \in Keys :
      pendingRequests'[j].req # 0 =>
        now' - pendingRequests'[j].timestamp <= REQUEST_CACHE_TTL

\* C32: right after a read request is registered no entry of the registry,
\* for any key, is older than REQUEST_CACHE_TTL, and at all times every
\* entry refers to a request that has not settled.
C32_SweptOnRegistration == []C32_Unsettled /\ [][C32_Swept]_vars

\* Two requests for different keys are in flight; the registration of the
\* second, more than REQUEST_CACHE_TTL after the first, swept the entry of
\* the first.
C32_Witness ==
  /\ Len(reqs) = 2
  /\ reqs[1].key # reqs[2].key
  /\ reqs[1].state = "inflight" /\ reqs[2].state = "inflight"
  /\ reqs[2].at - reqs[1].at > REQUEST_CACHE_TTL
  /\ pendingRequests[reqs[1].key].req = 0
  /\ pendingRequests[reqs[2].key].req = 2

\* ------------------------------------------------------------ C33
\* C33: whenever the queue is hydrated and no drain is active, no queued
\* command has status 'sending'.
C33_NoSendingAtRest ==
  (initPc = "done" /\ ActiveDrains = {}) =>
     \A c \in Range(queue) : c.status # "sending"

\* ------------------------------------------------------------ C34
\* C34: a command whose delivery Transport has answered with success is
\* not handed to Transport again.
C34_AckedNotResent ==
  [][\A d \in DrainSlots :
       DrainSend(d) => Head(drain[d].todo).id \notin acked]_vars

\* ------------------------------------------------------------ C35
\* C35: a read request that settles removes from the registry only its own
\* entry; an entry that refers to another request stays as it is.
C35_RemovesOwnEntryOnly ==
  [][\A r \in 1..MaxReqs, ok \in BOOLEAN :
       (ReadSettle(r, ok) /\ pendingRequests[reqs[r].key].req # r) =>
          pendingRequests' = pendingRequests]_vars

\* ------------------------------------------------------------ C36
\* The drains whose Transport call is in flight.
Delivering == {d \in DrainSlots : drain[d].pc = "inflight"}

C36_Send ==
  \A d \in DrainSlots : DrainSend(d) =>
    /\ Delivering = {}
    /\ \A i \in drain[d].snap :
         i < Head(drain[d].todo).id => i \in drain[d].sent
    /\ \A i \in drain[d].sent : i < Head(drain[d].todo).id

\* C36: at most one delivery is in flight, and a pass starts the Transport
\* call for a command only when no call is in flight and the calls for all
\* earlier commands of its snapshot, and for no later one, have been made
\* and have settled.
C36_OneAtATimeInOrder ==
  [](Cardinality(Delivering) <= 1) /\ [][C36_Send]_vars

\* The call for command 2 is in flight after the call for command 1 of the
\* same pass has settled.
C36_Witness ==
  \E d \in DrainSlots :
    /\ drain[d].pc = "inflight" /\ Head(drain[d].todo).id = 2
    /\ drain[d].snap = {1, 2} /\ drain[d].sent = {1, 2}

\* ------------------------------------------------------------ C37
\* C37: the flag is set only while a pass is running, and every pass ends
\* and resets it, whatever the outcomes of the deliveries and of the durable
\* writes and whether or not clearQueue() runs meanwhile.
C37_FlagCleared ==
  /\ [](processing => ActiveDrains # {})
  /\ processing ~> ~processing

\* A pass on both commands has ended and reset the flag; a durable write
\* was rejected and clearQueue() was called after the last enqueue.
C37_Witness ==
  /\ ~processing /\ ActiveDrains = {}
  /\ faults # {} /\ sinceClear # "none"
  /\ \A i \in CmdIds : attempts[i] > 0

====
